---- MODULE Spec2Model ----
(***************************************************************************)
(* A model of the macros of more_collection_macros (src/src/lib.rs):       *)
(* map!, iter! and list!.  One behaviour is one macro call: the state      *)
(* holds the call as written, the macro arm its tokens currently match,    *)
(* the local `map` of the strict builder, the iterator adapter built by    *)
(* iter!, and a log of every expression of the caller that was evaluated.  *)
(***************************************************************************)
EXTENDS Integers, Sequences, FiniteSets, TLC

\* Bounds of the model.
MaxPairs == 4
MaxRange == 3

\* Identifier tokens (sequences of characters), the keys they stringify to,
\* the values of value expressions and the elements of ranges.
Idents == {<<"a">>, <<"b">>, <<"a", "b">>}
Keys == {"a", "b", "ab"}
SeedKeys == {"a", "b"}
Values == {0, 1}
Elems == {0, 1, 2}
CompKeys == {"a", "b"}

VARIABLES
    form,       \* the syntax of the call as written
    input,      \* the pairs of the call as written
    comp,       \* the comprehension of the call as written
    arm,        \* the macro arm the current invocation matches
    seed,       \* $map of the current invocation
    pairs,      \* $key / $value of the current invocation
    pc,         \* where the expansion's code is
    map,        \* the local `map` of the strict builder
    idx,        \* number of pair blocks of the strict builder that have completed
    pos,        \* number of range elements the iterator has consumed
    out,        \* the items the iterator has yielded so far
    log,        \* the caller's expressions evaluated so far, in order
    returned,   \* whether the call has returned a value
    result,     \* the value returned
    panicMsg    \* the message of the panic

vars == <<form, input, comp, arm, seed, pairs, pc, map, idx, pos, out, log,
          returned, result, panicMsg>>

EmptyMap == [k \in {} |-> 0]

----------------------------------------------------------------------------
\* std::collections::HashMap, as the macros use it.

\* HashMap::insert that keeps the entry already present.
InsertKeepFirst(m, k, v) ==
    [x \in DOMAIN m \cup {k} |-> IF x \in DOMAIN m THEN m[x] ELSE v]

\* HashMap::insert: a present key gets the new value.
HashMapInsert(m, k, v) ==
    [x \in DOMAIN m \cup {k} |-> IF x = k THEN v ELSE m[x]]

\* A collect that never replaces the value of a key it already holds.
RECURSIVE CollectFromKeepFirst(_, _)
CollectFromKeepFirst(m, items) ==
    IF items = <<>> THEN m
    ELSE CollectFromKeepFirst(InsertKeepFirst(m, Head(items)[1], Head(items)[2]),
                              Tail(items))

\* collect::<HashMap<_, _>>(): every (key, value) item is inserted in order.
RECURSIVE CollectFrom(_, _)
CollectFrom(m, items) ==
    IF items = <<>> THEN m
    ELSE CollectFrom(HashMapInsert(m, Head(items)[1], Head(items)[2]), Tail(items))

CollectHashMap(items) == CollectFrom(EmptyMap, items)

----------------------------------------------------------------------------
\* stringify!($key) of an identifier: the text of the identifier.

\* A stringify! that keeps only the first character.
StringifyFirstChar(tok) == IF tok = <<>> THEN "" ELSE Head(tok)

RECURSIVE Stringify(_)
Stringify(tok) == IF tok = <<>> THEN "" ELSE Head(tok) \o Stringify(Tail(tok))

\* `stringify!($key) => $value` for every field.
StringifyFields(fs) == [i \in 1..Len(fs) |-> <<Stringify(fs[i][1]), fs[i][2]>>]

\* panic!("{key} already in dict")
PanicMessage(key) == key \o " already in dict"

----------------------------------------------------------------------------
\* The block of one `$key => $value` pair in the strict arm: the pair is the
\* i-th, m is `map` and lg the log before it.

\* A block that checks the key only after the value expression.
PairBlockValueFirst(m, p, i, lg) ==
    LET key == p[1]
        evk == lg \o <<<<"key", i>>, <<"value", i>>, <<"check", i>>>>
    IN  IF key \notin DOMAIN m
        THEN [map |-> HashMapInsert(m, key, p[2]), panicked |-> FALSE, msg |-> "",
              log |-> Append(evk, <<"insert", i>>)]
        ELSE [map |-> m, panicked |-> TRUE, msg |-> PanicMessage(key), log |-> evk]

\* A block without the contains_key check.
PairBlockUnchecked(m, p, i, lg) ==
    [map |-> HashMapInsert(m, p[1], p[2]), panicked |-> FALSE, msg |-> "",
     log |-> lg \o <<<<"key", i>>, <<"check", i>>, <<"value", i>>, <<"insert", i>>>>]

\* A block whose panic names the first key of the map instead of `key`.
PairBlockWrongMessage(m, p, i, lg) ==
    LET key == p[1]
        evk == lg \o <<<<"key", i>>, <<"check", i>>>>
    IN  IF key \notin DOMAIN m
        THEN [map |-> HashMapInsert(m, key, p[2]), panicked |-> FALSE, msg |-> "",
              log |-> evk \o <<<<"value", i>>, <<"insert", i>>>>]
        ELSE [map |-> m, panicked |-> TRUE,
              msg |-> PanicMessage(CHOOSE k \in DOMAIN m : k # key \/ DOMAIN m = {key}),
              log |-> evk]

PairBlock(m, p, i, lg) ==
    LET key == p[1]
        evk == lg \o <<<<"key", i>>, <<"check", i>>>>
    IN  IF key \notin DOMAIN m
        THEN [map |-> HashMapInsert(m, key, p[2]), panicked |-> FALSE, msg |-> "",
              log |-> evk \o <<<<"value", i>>, <<"insert", i>>>>]
        ELSE [map |-> m, panicked |-> TRUE, msg |-> PanicMessage(key), log |-> evk]

\* The whole strict arm on ($map, pairs): the blocks in source order, then `map`.
RECURSIVE StrictBlocks(_, _, _, _)
StrictBlocks(m, ps, i, lg) ==
    IF i > Len(ps) THEN [map |-> m, panicked |-> FALSE, msg |-> "", log |-> lg]
    ELSE LET b == PairBlock(m, ps[i], i, lg)
         IN  IF b.panicked THEN b ELSE StrictBlocks(b.map, ps, i + 1, b.log)

MapStrict(sd, ps) == StrictBlocks(sd, ps, 1, <<<<"seed", 0>>>>)

\* The arm `$($key:expr => $value:expr),*`: the strict arm on HashMap::new().
MapArrowsOf(ps) == MapStrict(EmptyMap, ps)

\* The arm `$(($key:expr, $value:expr)),*`: the array of tuples, collected.
MapTuplesOf(ps) == CollectHashMap(ps)

\* The log of evaluating the array `[($key, $value), ...]`.
TupleLog(ps) ==
    [n \in 1..(2 * Len(ps)) |->
        IF n % 2 = 1 THEN <<"key", (n + 1) \div 2>> ELSE <<"value", n \div 2>>]

----------------------------------------------------------------------------
\* The iterator built by iter!: IntoIterator::into_iter($range), then
\* .filter(|$v| $cond) when a condition is given, then .map(|$v| $ex).
\* c is the comprehension, ex the body $ex as a function of the element,
\* p the number of range elements consumed and lg the log.

\* next() of the range's iterator.
RangeNext(c, p, lg) ==
    IF p < Len(c.range)
    THEN [some |-> TRUE, pos |-> p + 1, log |-> lg]
    ELSE [some |-> FALSE, pos |-> p, log |-> lg]

\* Filter::next: takes elements until the predicate holds of one.
RECURSIVE FilterNext(_, _, _)
FilterNext(c, p, lg) ==
    LET r == RangeNext(c, p, lg)
    IN  IF ~r.some THEN r
        ELSE LET lg2 == Append(r.log, <<"cond", r.pos>>)
             IN  IF c.cond[c.range[r.pos]]
                 THEN [some |-> TRUE, pos |-> r.pos, log |-> lg2]
                 ELSE FilterNext(c, r.pos, lg2)

\* A Map::next that evaluates the body before it asks the inner iterator.
IterNextEager(c, ex, p, lg) ==
    LET lg0 == IF p < Len(c.range) THEN Append(lg, <<"body", p + 1>>) ELSE lg
        r == IF c.hasCond THEN FilterNext(c, p, lg0) ELSE RangeNext(c, p, lg0)
    IN  IF r.some
        THEN [some |-> TRUE, pos |-> r.pos, item |-> ex[c.range[r.pos]], log |-> r.log]
        ELSE [some |-> FALSE, pos |-> r.pos, item |-> ex[0], log |-> r.log]

\* Map::next over the inner iterator: the body is applied to the element it yields.
IterNextOf(c, ex, p, lg) ==
    LET r == IF c.hasCond THEN FilterNext(c, p, lg) ELSE RangeNext(c, p, lg)
    IN  IF r.some
        THEN [some |-> TRUE, pos |-> r.pos, item |-> ex[c.range[r.pos]],
              log |-> Append(r.log, <<"body", r.pos>>)]
        ELSE [some |-> FALSE, pos |-> r.pos, item |-> ex[0], log |-> r.log]

\* A collect that pushes every item to the front.
RECURSIVE DrainReversed(_, _, _, _, _)
DrainReversed(c, ex, p, lg, acc) ==
    LET r == IterNextOf(c, ex, p, lg)
    IN  IF r.some THEN DrainReversed(c, ex, r.pos, r.log, <<r.item>> \o acc)
        ELSE [items |-> acc, pos |-> r.pos, log |-> r.log]

\* collect(): next() until None, the items kept in the order yielded.
RECURSIVE Drain(_, _, _, _, _)
Drain(c, ex, p, lg, acc) ==
    LET r == IterNextOf(c, ex, p, lg)
    IN  IF r.some THEN Drain(c, ex, r.pos, r.log, Append(acc, r.item))
        ELSE [items |-> acc, pos |-> r.pos, log |-> r.log]

\* The body of iter! / list!, and the body `($key, $value)` map! gives iter!.
ItemBody(c) == c.valFn
TupleBody(c) == [e \in Elems |-> <<c.keyFn[e], c.valFn[e]>>]

\* list!(...): the iterator of iter!(...) collected into a Vec.
ListOf(c) == Drain(c, ItemBody(c), 0, <<<<"range", 0>>>>, <<>>)

\* map!{$key => $value; $v in $range [; if $cond]}: collected into a HashMap.
MapComprehensionOf(c) ==
    LET d == Drain(c, TupleBody(c), 0, <<<<"range", 0>>>>, <<>>)
    IN  [map |-> CollectHashMap(d.items), pos |-> d.pos, log |-> d.log]

----------------------------------------------------------------------------
\* The calls.

RECURSIVE SeqsUpTo(_, _)
SeqsUpTo(S, n) ==
    IF n = 0 THEN {<<>>}
    ELSE LET shorter == SeqsUpTo(S, n - 1)
         IN  shorter \cup {Append(s, x) : s \in {t \in shorter : Len(t) = n - 1}, x \in S}

PairSeqs == SeqsUpTo(Keys \X Values, MaxPairs)
FieldSeqs == SeqsUpTo(Idents \X Values, MaxPairs)
SeedMaps == UNION {[D -> Values] : D \in SUBSET SeedKeys}

NoComp == [range |-> <<>>, keyFn |-> [e \in Elems |-> "a"], valFn |-> [e \in Elems |-> 0],
           hasCond |-> FALSE, cond |-> [e \in Elems |-> TRUE]]

InitLiteral ==
    /\ form \in {"tuples", "fields", "seeded", "arrows"}
    /\ input \in IF form = "fields" THEN FieldSeqs ELSE PairSeqs
    /\ seed \in IF form = "seeded" THEN SeedMaps ELSE {EmptyMap}
    /\ comp = NoComp
    /\ pairs = input

TrueCond == [e \in Elems |-> TRUE]

InitComprehension ==
    /\ form \in {"mapcomp", "iter", "list"}
    /\ comp \in [range : SeqsUpTo(Elems, MaxRange),
                 keyFn : IF form = "mapcomp" THEN [Elems -> CompKeys] ELSE {NoComp.keyFn},
                 valFn : [Elems -> Values],
                 hasCond : BOOLEAN,
                 cond : [Elems -> BOOLEAN]]
    /\ ~comp.hasCond => comp.cond = TrueCond
    /\ input = <<>>
    /\ seed = EmptyMap
    /\ pairs = <<>>

Init ==
    /\ InitLiteral \/ InitComprehension
    /\ arm = form
    /\ pc = "call"
    /\ map = EmptyMap
    /\ idx = 0
    /\ pos = 0
    /\ out = <<>>
    /\ log = <<>>
    /\ returned = FALSE
    /\ result = <<>>
    /\ panicMsg = ""

----------------------------------------------------------------------------
\* map! on literal pairs.

\* Arm 1, `$(($key:expr, $value:expr)),*`.
MapTuples ==
    /\ pc = "call" /\ arm = "tuples"
    /\ log' = log \o TupleLog(pairs)
    /\ result' = MapTuplesOf(pairs)
    /\ returned' = TRUE
    /\ pc' = "done"
    /\ UNCHANGED <<form, input, comp, arm, seed, pairs, map, idx, pos, out, panicMsg>>

\* Arm 2, `$($key:ident : $value:expr),*`: expands to the strict arm on an
\* empty map with the stringified names as keys.
MapFields ==
    /\ pc = "call" /\ arm = "fields"
    /\ arm' = "seeded"
    /\ seed' = EmptyMap
    /\ pairs' = StringifyFields(pairs)
    /\ UNCHANGED <<form, input, comp, pc, map, idx, pos, out, log, returned, result, panicMsg>>

\* Arm 4, `$($key:expr => $value:expr),*`: expands to the strict arm on an empty map.
MapArrows ==
    /\ pc = "call" /\ arm = "arrows"
    /\ arm' = "seeded"
    /\ seed' = EmptyMap
    /\ UNCHANGED <<form, input, comp, pairs, pc, map, idx, pos, out, log, returned, result,
                   panicMsg>>

\* An arm 3 that starts from an empty map whatever $map is.
MapSeededEmpty ==
    /\ pc = "call" /\ arm = "seeded"
    /\ map' = EmptyMap
    /\ log' = Append(log, <<"seed", 0>>)
    /\ pc' = "accumulating"
    /\ UNCHANGED <<form, input, comp, arm, seed, pairs, idx, pos, out, returned, result,
                   panicMsg>>

\* Arm 3, `$map:expr, $($key:expr => $value:expr),*`: `let mut map = $map;`
MapSeeded ==
    /\ pc = "call" /\ arm = "seeded"
    /\ map' = seed
    /\ log' = Append(log, <<"seed", 0>>)
    /\ pc' = "accumulating"
    /\ UNCHANGED <<form, input, comp, arm, seed, pairs, idx, pos, out, returned, result,
                   panicMsg>>

\* Arm 3, the block of the next pair.
StrictPair ==
    /\ pc = "accumulating" /\ idx < Len(pairs)
    /\ LET b == PairBlock(map, pairs[idx + 1], idx + 1, log)
       IN  /\ log' = b.log
           /\ map' = b.map
           /\ IF b.panicked
              THEN /\ pc' = "aborted"
                   /\ panicMsg' = b.msg
                   /\ idx' = idx
              ELSE /\ idx' = idx + 1
                   /\ UNCHANGED <<pc, panicMsg>>
    /\ UNCHANGED <<form, input, comp, arm, seed, pairs, pos, out, returned, result>>

\* Arm 3, the final expression `map`.
StrictReturn ==
    /\ pc = "accumulating" /\ idx = Len(pairs)
    /\ result' = map
    /\ returned' = TRUE
    /\ pc' = "finalized"
    /\ UNCHANGED <<form, input, comp, arm, seed, pairs, map, idx, pos, out, log, panicMsg>>

----------------------------------------------------------------------------
\* The comprehensions.

\* Arms 5 and 6 of map!, `$key => $value; $v in $range [; if $cond]`.
MapComprehension ==
    /\ pc = "call" /\ arm = "mapcomp"
    /\ LET r == MapComprehensionOf(comp)
       IN  /\ result' = r.map
           /\ pos' = r.pos
           /\ log' = log \o r.log
    /\ returned' = TRUE
    /\ pc' = "done"
    /\ UNCHANGED <<form, input, comp, arm, seed, pairs, map, idx, out, panicMsg>>

\* list!.
List ==
    /\ pc = "call" /\ arm = "list"
    /\ LET r == ListOf(comp)
       IN  /\ result' = r.items
           /\ pos' = r.pos
           /\ log' = log \o r.log
    /\ returned' = TRUE
    /\ pc' = "done"
    /\ UNCHANGED <<form, input, comp, arm, seed, pairs, map, idx, out, panicMsg>>

\* An iter! that runs the whole comprehension when it builds the adapter.
IterEager ==
    /\ pc = "call" /\ arm = "iter"
    /\ log' = log \o ListOf(comp).log
    /\ returned' = TRUE
    /\ pc' = "iterating"
    /\ UNCHANGED <<form, input, comp, arm, seed, pairs, map, idx, pos, out, result, panicMsg>>

\* iter!: the adapter is built over the range and returned to the caller.
Iter ==
    /\ pc = "call" /\ arm = "iter"
    /\ log' = Append(log, <<"range", 0>>)
    /\ returned' = TRUE
    /\ pc' = "iterating"
    /\ UNCHANGED <<form, input, comp, arm, seed, pairs, map, idx, pos, out, result, panicMsg>>

\* The caller asks the iterator of iter! for its next item; it stops at None.
IterNext ==
    /\ pc = "iterating"
    /\ LET r == IterNextOf(comp, ItemBody(comp), pos, log)
       IN  /\ pos' = r.pos
           /\ log' = r.log
           /\ IF r.some
              THEN /\ out' = Append(out, r.item)
                   /\ pc' = pc
              ELSE /\ out' = out
                   /\ pc' = "done"
    /\ UNCHANGED <<form, input, comp, arm, seed, pairs, map, idx, returned, result, panicMsg>>

Next ==
    \/ MapTuples
    \/ MapFields
    \/ MapArrows
    \/ MapSeeded
    \/ StrictPair
    \/ StrictReturn
    \/ MapComprehension
    \/ List
    \/ Iter
    \/ IterNext

Spec == Init /\ [][Next]_vars

\* The calls that go through the strict arm of map!, on their own.  The
\* expansion is straight-line code, so an enabled step is eventually taken.
InitStrict == Init /\ form \in {"fields", "seeded", "arrows"}

NextStrict ==
    \/ MapFields
    \/ MapArrows
    \/ MapSeeded
    \/ StrictPair
    \/ StrictReturn

StrictSpec == InitStrict /\ [][NextStrict]_vars /\ WF_vars(NextStrict)

----------------------------------------------------------------------------
\* What the properties speak of.

\* The call goes through the strict arm (arm 3), directly or by expansion.
StrictCall == form \in {"fields", "seeded", "arrows"}
InStrictArm == StrictCall /\ arm = "seeded" /\ pc # "call"

\* The i-th pair's key is a key of the seed or of an earlier pair.
Collides(i) == pairs[i][1] \in DOMAIN seed \cup {pairs[j][1] : j \in 1..(i - 1)}
DupIdx == {i \in 1..Len(pairs) : Collides(i)}
FirstDup == IF DupIdx = {} THEN 0 ELSE CHOOSE i \in DupIdx : \A j \in DupIdx : i <= j

Occurs(ev) == \E n \in 1..Len(log) : log[n] = ev
NoEventTwice == \A n, m \in 1..Len(log) : log[n] = log[m] => n = m
Precedes(ev1, ev2) ==
    \E n, m \in 1..Len(log) : n < m /\ log[n] = ev1 /\ log[m] = ev2

\* The mapping of each key to the value of the last pair that carries it.
LastWins(ps) ==
    [k \in {ps[i][1] : i \in 1..Len(ps)} |->
        LET last == CHOOSE i \in 1..Len(ps) :
                        /\ ps[i][1] = k
                        /\ \A j \in 1..Len(ps) : ps[j][1] = k => j <= i
        IN  ps[last][2]]
HasRepeat(ps) == \E i, j \in 1..Len(ps) : i < j /\ ps[i][1] = ps[j][1]

\* The positions of the range whose element passes the predicate.
Passes(c, j) == ~c.hasCond \/ c.cond[c.range[j]]
Passing(c) == {j \in 1..Len(c.range) : Passes(c, j)}

----------------------------------------------------------------------------
\* C1: in the strict map builder the pairs are processed in source order and
\* the call aborts at the first pair whose key is already in the accumulating
\* mapping (a key of the seed or of an earlier pair); the panic names that
\* pair's key and the call returns no mapping.
C1_AbortAtFirstDuplicate ==
    InStrictArm =>
        /\ \A i \in 1..Len(pairs) : \A j \in 1..Len(pairs) :
              (i < j /\ Occurs(<<"key", j>>)) => Precedes(<<"key", i>>, <<"key", j>>)
        /\ FirstDup # 0 => (idx < FirstDup /\ pc # "finalized" /\ ~returned)
        /\ pc = "aborted" =>
              /\ FirstDup # 0
              /\ idx = FirstDup - 1
              /\ panicMsg = PanicMessage(pairs[FirstDup][1])
              /\ ~returned

\* The scenario of tests::repeat_keys: four fields, three fresh names and
\* then the second name again.
C1_Witness ==
    /\ form = "fields" /\ pc = "aborted"
    /\ Len(input) = 4 /\ idx = 3
    /\ input[1] = <<<<"a">>, 0>> /\ input[2] = <<<<"b">>, 1>>
    /\ input[3][1] = <<"a", "b">> /\ input[4][1] = <<"b">>
    /\ panicMsg = "b already in dict"
    /\ ~returned

\* C2: in the strict map builder the key expression of a pair is evaluated
\* before the existence check, the value expression only if the key is new,
\* and once a duplicate key is detected neither that pair's value expression
\* nor any expression of a later pair is evaluated.
C2_EvaluationOrder ==
    InStrictArm =>
        /\ NoEventTwice
        /\ \A n \in 1..Len(log) :
              LET kind == log[n][1]
                  i == log[n][2]
              IN  /\ kind = "check" => (n > 1 /\ log[n - 1] = <<"key", i>>)
                  /\ kind = "value" =>
                        (n > 1 /\ log[n - 1] = <<"check", i>> /\ ~Collides(i))
                  /\ FirstDup # 0 =>
                        /\ i <= FirstDup
                        /\ i = FirstDup => kind \in {"key", "check"}
        /\ \A i \in 1..idx : Occurs(<<"key", i>>) /\ Occurs(<<"value", i>>)
        /\ pc = "aborted" => log[Len(log)] = <<"check", FirstDup>>

C2_Witness ==
    /\ InStrictArm /\ pc = "aborted"
    /\ idx = 1 /\ Len(pairs) = 3
    /\ Occurs(<<"value", 1>>) /\ Occurs(<<"check", 2>>)
    /\ ~Occurs(<<"value", 2>>) /\ ~Occurs(<<"key", 3>>)

\* C3 as stated: map! on explicit pairs, written `key => value` or
\* `(key, value)`, never aborts on a repeated key and returns the mapping of
\* each key to the value of the last pair carrying it.
C3_Original ==
    form \in {"tuples", "arrows"} =>
        /\ pc # "aborted"
        /\ returned => result = LastWins(input)

\* C3, amended: map! on `(key, value)` tuples never aborts on a repeated key
\* and returns the mapping of each key to the value of the last pair carrying
\* it; map! on `key => value` pairs goes through the strict builder on an
\* empty seed, so it aborts exactly when a key repeats and returns that
\* mapping only when the keys are pairwise distinct.
C3_TuplesOverwriteArrowsStrict ==
    /\ form = "tuples" =>
          /\ pc # "aborted"
          /\ returned => result = LastWins(input)
    /\ form = "arrows" =>
          /\ pc = "aborted" => HasRepeat(input)
          /\ HasRepeat(input) => ~returned
          /\ returned => result = LastWins(input)

C3_Witness ==
    /\ form = "tuples" /\ returned
    /\ \E i, j \in 1..Len(input) :
          /\ i < j /\ input[i][1] = input[j][1] /\ input[i][2] # input[j][2]
          /\ result[input[i][1]] = input[j][2]

\* C4: the map comprehension never aborts on a repeated key: the result holds
\* exactly the keys of the elements that pass the predicate, each mapped to
\* the value of the last such element, in iteration order, that produces it.
C4_ComprehensionLastWins ==
    form = "mapcomp" =>
        /\ pc # "aborted"
        /\ pc = "done" =>
              /\ returned
              /\ DOMAIN result = {comp.keyFn[comp.range[j]] : j \in Passing(comp)}
              /\ \A k \in DOMAIN result :
                    LET last == CHOOSE j \in Passing(comp) :
                                    /\ comp.keyFn[comp.range[j]] = k
                                    /\ \A h \in Passing(comp) :
                                          comp.keyFn[comp.range[h]] = k => h <= j
                    IN  result[k] = comp.valFn[comp.range[last]]

C4_Witness ==
    /\ form = "mapcomp" /\ pc = "done" /\ comp.hasCond
    /\ Passing(comp) # 1..Len(comp.range)
    /\ \E i, j \in Passing(comp) :
          /\ i < j
          /\ comp.keyFn[comp.range[i]] = comp.keyFn[comp.range[j]]
          /\ comp.valFn[comp.range[i]] # comp.valFn[comp.range[j]]
          /\ result[comp.keyFn[comp.range[i]]] = comp.valFn[comp.range[j]]

\* The list of the body's values on the elements that pass the predicate, in
\* the order of the range.
FilteredBodies(c) ==
    LET keep(v) == ~c.hasCond \/ c.cond[v]
        sub == SelectSeq(c.range, keep)
    IN  [i \in 1..Len(sub) |-> c.valFn[sub[i]]]

\* C5: list! returns the body's values on exactly the elements of the range
\* that satisfy the predicate (all of them without a predicate), in the order
\* of the range, and draining iter! on the same arguments gives the same
\* sequence.
C5_ListIsFilteredMap ==
    /\ (form = "list" /\ pc = "done") => (returned /\ result = FilteredBodies(comp))
    /\ (form = "iter" /\ pc = "done") =>
          (out = ListOf(comp).items /\ out = FilteredBodies(comp))

C5_Witness ==
    /\ form = "list" /\ pc = "done" /\ comp.hasCond
    /\ Len(comp.range) = 3 /\ Len(result) = 2
    /\ ~comp.cond[comp.range[2]]
    /\ result[1] # result[2]

\* C6: in a filtered comprehension the predicate is evaluated on an element
\* before the body, the body is never evaluated on an element the predicate
\* rejects, and it is evaluated exactly once on each element it accepts.
C6_PredicateBeforeBody ==
    (form \in {"iter", "list", "mapcomp"} /\ comp.hasCond) =>
        /\ NoEventTwice
        /\ \A n \in 1..Len(log) :
              log[n][1] = "body" =>
                  /\ n > 1 /\ log[n - 1] = <<"cond", log[n][2]>>
                  /\ comp.cond[comp.range[log[n][2]]]
        /\ \A j \in 1..pos :
              /\ Occurs(<<"cond", j>>)
              /\ comp.cond[comp.range[j]] => Occurs(<<"body", j>>)
        /\ pc = "done" => pos = Len(comp.range)

C6_Witness ==
    /\ form = "mapcomp" /\ pc = "done" /\ comp.hasCond
    /\ Len(comp.range) = 3
    /\ Occurs(<<"body", 1>>) /\ ~Occurs(<<"body", 2>>) /\ Occurs(<<"body", 3>>)
    /\ Precedes(<<"cond", 2>>, <<"body", 3>>)

\* The name of each identifier as a string.
NameOf(tok) ==
    IF tok = <<"a">> THEN "a" ELSE IF tok = <<"b">> THEN "b" ELSE "ab"
NamedPairs == [i \in 1..Len(input) |-> <<NameOf(input[i][1]), input[i][2]>>]

\* C7: for fields with pairwise distinct names, map! in field form returns
\* the mapping built from the explicit pairs (stringified name, value),
\* written either as `"name" => value` or as `("name", value)`.
C7_FieldsEqualExplicitPairs ==
    (form = "fields" /\ ~HasRepeat(input)) =>
        /\ pc # "aborted"
        /\ returned =>
              /\ ~MapArrowsOf(NamedPairs).panicked
              /\ result = MapArrowsOf(NamedPairs).map
              /\ result = MapTuplesOf(NamedPairs)

C7_Witness ==
    /\ form = "fields" /\ returned /\ ~HasRepeat(input)
    /\ Len(input) = 3
    /\ DOMAIN result = {"a", "b", "ab"}
    /\ result["ab"] # result["a"]

\* C8: the iterator of iter! is lazy and single-pass: building it evaluates
\* neither the body nor the predicate; each request for the next item
\* consumes range elements one at a time, in range order, only until one is
\* yielded; no element is consumed or evaluated a second time.
C8_LazySinglePass ==
    [][form = "iter" =>
        /\ pc = "call" => (pos' = 0 /\ out' = <<>> /\ log' = <<<<"range", 0>>>>)
        /\ pc = "iterating" =>
              /\ pos' >= pos /\ pos' <= Len(comp.range)
              /\ \A j \in (pos + 1)..(pos' - 1) : ~Passes(comp, j)
              /\ Len(out') = Len(out) + 1 =>
                    (pos' > pos /\ Passes(comp, pos') /\ pc' = "iterating")
              /\ Len(out') # Len(out) + 1 =>
                    /\ out' = out /\ pos' = Len(comp.range) /\ pc' = "done"
                    /\ pos' > pos => ~Passes(comp, pos')
              /\ Len(log') >= Len(log) /\ SubSeq(log', 1, Len(log)) = log
              /\ \A n \in (Len(log) + 1)..Len(log') :
                    /\ log'[n][2] \in (pos + 1)..pos'
                    /\ \A m \in 1..(n - 1) :
                          /\ log'[m] # log'[n]
                          /\ log'[m][2] <= log'[n][2]
        /\ pc = "done" => UNCHANGED <<pos, out, log>>
    ]_vars

C8_Witness ==
    /\ form = "iter" /\ pc = "iterating" /\ comp.hasCond
    /\ Len(comp.range) = 3 /\ pos = 2 /\ Len(out) = 1
    /\ ~comp.cond[comp.range[1]]
    /\ ~Occurs(<<"cond", 3>>) /\ ~Occurs(<<"body", 1>>)

\* C9: a run of the strict map builder starts accumulating and ends in
\* exactly one terminal state: aborted iff some pair's key is already present
\* when the pair is reached, finalized (returning the mapping) iff all pairs
\* are processed without collision; no pair is processed after either.
C9_StrictTerminates ==
    /\ [](StrictCall =>
            /\ pc \in {"call", "accumulating", "aborted", "finalized"}
            /\ pc = "aborted" =>
                  (arm = "seeded" /\ idx < Len(pairs) /\ Collides(idx + 1) /\ ~returned)
            /\ pc = "finalized" =>
                  (arm = "seeded" /\ idx = Len(pairs) /\ DupIdx = {}
                   /\ returned /\ result = map))
    /\ [][StrictCall =>
            /\ pc = "call" => pc' \in {"call", "accumulating"}
            /\ pc \in {"aborted", "finalized"} => UNCHANGED vars]_vars
    /\ [](StrictCall => <>(pc \in {"aborted", "finalized"}))

C9_Witness ==
    /\ form = "seeded" /\ pc = "finalized"
    /\ Len(pairs) = 2 /\ DOMAIN seed = {"a"}

\* C10: at every step of the strict map builder the accumulating mapping is
\* the seed plus exactly the pairs processed so far; no seed entry is
\* overwritten or removed, so a finalized mapping holds every seed entry
\* unchanged and its size is the seed's plus the number of pairs.
C10_SeedPlusProcessedPairs ==
    InStrictArm =>
        /\ DOMAIN map = DOMAIN seed \cup {pairs[i][1] : i \in 1..idx}
        /\ \A k \in DOMAIN seed : map[k] = seed[k]
        /\ \A i \in 1..idx : map[pairs[i][1]] = pairs[i][2]
        /\ Cardinality(DOMAIN map) = Cardinality(DOMAIN seed) + idx
        /\ pc = "finalized" =>
              /\ result = map
              /\ Cardinality(DOMAIN result) = Cardinality(DOMAIN seed) + Len(pairs)

C10_Witness ==
    /\ form = "seeded" /\ pc = "finalized"
    /\ Cardinality(DOMAIN seed) = 2 /\ Len(pairs) = 1
    /\ \E k \in DOMAIN seed : seed[k] # pairs[1][2] /\ result[k] = seed[k]

====
